---- MODULE Spec2Model ----
(***************************************************************************)
(* semverup (release_tools/semverup.py): bump the version number stored in *)
(* a *_version.py file from the categories of the unreleased changelog     *)
(* entries.                                                                *)
(*                                                                         *)
(* Text is modelled as sequences of characters.  The literal text          *)
(* "__version__" and the fixed header text of the generated file are one   *)
(* token each; every other character stands for itself.                    *)
(***************************************************************************)
EXTENDS Integers, Sequences, FiniteSets, TLC

(***************************************************************************)
(* Bounds of the model.                                                    *)
(***************************************************************************)
\* invocations of the command in one behaviour
MaxRuns == 2
\* changelog entries in releases/unreleased
MaxEntries == 2

(***************************************************************************)
(* Characters and strings.                                                 *)
(***************************************************************************)
NAME == "__version__"
HEADER == "# File auto-generated by semverup on "
SP == " "
NL == "\n"
SQ == "'"
DQ == "\""

DigitChars == <<"0", "1", "2", "3", "4", "5", "6", "7", "8", "9">>

IsDigit(c) == \E d \in 1..10 : DigitChars[d] = c

DigitVal(c) == (CHOOSE d \in 1..10 : DigitChars[d] = c) - 1

\* the characters [A-Za-z-] that occur in the model
IsAlphaDash(c) == c \in {"a", "b", "-"}

\* regex class \s
IsSpace(c) == c \in {SP, NL}

\* regex class ['"]
IsQuote(c) == c \in {SQ, DQ}

\* str(int)
RECURSIVE FormatInt(_)
FormatInt(n) ==
    IF n < 10 THEN <<DigitChars[n + 1]>>
    ELSE FormatInt(n \div 10) \o <<DigitChars[(n % 10) + 1]>>

\* int(str) of a non-empty string of digits
RECURSIVE ParseInt(_)
ParseInt(s) ==
    IF Len(s) = 1 THEN DigitVal(s[1])
    ELSE 10 * ParseInt(SubSeq(s, 1, Len(s) - 1)) + DigitVal(s[Len(s)])

\* s.find(c) + 1: the first position of c in s, 0 when there is none
RECURSIVE IndexFrom(_, _, _)
IndexFrom(s, c, i) ==
    IF i > Len(s) THEN 0
    ELSE IF s[i] = c THEN i
    ELSE IndexFrom(s, c, i + 1)

IndexOf(s, c) == IndexFrom(s, c, 1)

\* s.split('.')
RECURSIVE SplitDots(_)
SplitDots(s) ==
    LET i == IndexOf(s, ".")
    IN  IF i = 0 THEN <<s>>
        ELSE <<SubSeq(s, 1, i - 1)>> \o SplitDots(SubSeq(s, i + 1, Len(s)))

(***************************************************************************)
(* Versions (semver.VersionInfo).  An absent prerelease or build is the    *)
(* empty string.                                                           *)
(***************************************************************************)
None == [major |-> -1, minor |-> -1, patch |-> -1,
         prerelease |-> <<>>, build |-> <<>>]

VersionInfo(ma, mi, pa, pre, bu) ==
    [major |-> ma, minor |-> mi, patch |-> pa, prerelease |-> pre, build |-> bu]

\* (0|[1-9][0-9]*)
IsNumericId(s) ==
    /\ Len(s) > 0
    /\ \A i \in 1..Len(s) : IsDigit(s[i])
    /\ (Len(s) > 1 => s[1] # "0")

\* (0|[1-9A-Za-z-][0-9A-Za-z-]*)
IsPrereleaseId(s) ==
    /\ Len(s) > 0
    /\ \A i \in 1..Len(s) : IsDigit(s[i]) \/ IsAlphaDash(s[i])
    /\ (Len(s) > 1 => s[1] # "0")

\* [0-9A-Za-z-]+
IsBuildId(s) ==
    /\ Len(s) > 0
    /\ \A i \in 1..Len(s) : IsDigit(s[i]) \/ IsAlphaDash(s[i])

\* The semver pattern: ^major.minor.patch(-prerelease)?(+build)?$ , where $
\* also matches before one final newline.
ParseVersionInfo(text) ==
    LET t == IF Len(text) > 0 /\ text[Len(text)] = NL
             THEN SubSeq(text, 1, Len(text) - 1) ELSE text
        plus == IndexOf(t, "+")
        main == IF plus = 0 THEN t ELSE SubSeq(t, 1, plus - 1)
        bu == IF plus = 0 THEN <<>> ELSE SubSeq(t, plus + 1, Len(t))
        dash == IndexOf(main, "-")
        core == IF dash = 0 THEN main ELSE SubSeq(main, 1, dash - 1)
        pre == IF dash = 0 THEN <<>> ELSE SubSeq(main, dash + 1, Len(main))
        nums == SplitDots(core)
        preIds == SplitDots(pre)
        buIds == SplitDots(bu)
        ok == /\ Len(nums) = 3
              /\ \A i \in 1..3 : IsNumericId(nums[i])
              /\ (dash # 0 => \A i \in 1..Len(preIds) : IsPrereleaseId(preIds[i]))
              /\ (plus # 0 => \A i \in 1..Len(buIds) : IsBuildId(buIds[i]))
    IN  IF ok
        THEN [valid |-> TRUE,
              version |-> VersionInfo(ParseInt(nums[1]), ParseInt(nums[2]),
                                      ParseInt(nums[3]), pre, bu)]
        ELSE [valid |-> FALSE, version |-> None]

\* str(VersionInfo)
FormatVersion(v) ==
    FormatInt(v.major) \o <<".">> \o FormatInt(v.minor) \o <<".">>
        \o FormatInt(v.patch)
        \o (IF v.prerelease # <<>> THEN <<"-">> \o v.prerelease ELSE <<>>)
        \o (IF v.build # <<>> THEN <<"+">> \o v.build ELSE <<>>)

\* VersionInfo.bump_patch()
BumpPatch(v) == VersionInfo(v.major, v.minor, v.patch + 1, <<>>, <<>>)

\* VersionInfo.bump_minor()
BumpMinor(v) == VersionInfo(v.major, v.minor + 1, 0, <<>>, <<>>)

(***************************************************************************)
(* Precedence of versions (semver.compare).                                *)
(***************************************************************************)
\* the order of the characters of an identifier (ASCII)
CharOrd(c) ==
    IF c = "-" THEN 0
    ELSE IF IsDigit(c) THEN 1 + DigitVal(c)
    ELSE IF c = "a" THEN 11
    ELSE 12

\* cmp of two strings
RECURSIVE CmpText(_, _)
CmpText(a, b) ==
    IF a = <<>> /\ b = <<>> THEN 0
    ELSE IF a = <<>> THEN -1
    ELSE IF b = <<>> THEN 1
    ELSE IF CharOrd(a[1]) < CharOrd(b[1]) THEN -1
    ELSE IF CharOrd(a[1]) > CharOrd(b[1]) THEN 1
    ELSE CmpText(Tail(a), Tail(b))

CmpInt(a, b) == IF a < b THEN -1 ELSE IF a > b THEN 1 ELSE 0

IsAllDigits(s) == Len(s) > 0 /\ \A i \in 1..Len(s) : IsDigit(s[i])

\* cmp_prerelease_tag: numbers by value, a number below a word, words as text
CmpTag(a, b) ==
    IF IsAllDigits(a) /\ IsAllDigits(b) THEN CmpInt(ParseInt(a), ParseInt(b))
    ELSE IF IsAllDigits(a) THEN -1
    ELSE IF IsAllDigits(b) THEN 1
    ELSE CmpText(a, b)

RECURSIVE CmpTags(_, _, _, _)
CmpTags(as, bs, lenA, lenB) ==
    IF as = <<>> \/ bs = <<>> THEN CmpInt(lenA, lenB)
    ELSE IF CmpTag(as[1], bs[1]) # 0 THEN CmpTag(as[1], bs[1])
    ELSE CmpTags(Tail(as), Tail(bs), lenA, lenB)

\* _nat_cmp of two prerelease strings
NatCmp(a, b) == CmpTags(SplitDots(a), SplitDots(b), Len(a), Len(b))

\* semver.compare: major, minor, patch, then the prerelease; a version with
\* no prerelease is above the same version with one; the build is ignored
Compare(v, w) ==
    IF v.major # w.major THEN CmpInt(v.major, w.major)
    ELSE IF v.minor # w.minor THEN CmpInt(v.minor, w.minor)
    ELSE IF v.patch # w.patch THEN CmpInt(v.patch, w.patch)
    ELSE IF NatCmp(v.prerelease, w.prerelease) = 0 THEN 0
    ELSE IF v.prerelease = <<>> THEN 1
    ELSE IF w.prerelease = <<>> THEN -1
    ELSE NatCmp(v.prerelease, w.prerelease)

(***************************************************************************)
(* The version file.                                                       *)
(***************************************************************************)
TemplateSingleLine(timestamp, version) ==
    <<HEADER>> \o timestamp \o <<SP, NAME, SP, "=", SP, DQ>>
        \o version \o <<DQ, NL>>

\* VERSION_FILE_TEMPLATE.format(timestamp=..., version=...)
VERSION_FILE_TEMPLATE(timestamp, version) ==
    <<HEADER>> \o timestamp \o <<NL, NAME, SP, "=", SP, DQ>>
        \o version \o <<DQ, NL>>

\* str(datetime.datetime.utcnow()) at clock reading t
Timestamp(t) == <<"T">> \o FormatInt(t)

\* ^ under re.MULTILINE: the start of the text or just after a newline
IsLineStart(s, i) == i = 1 \/ s[i - 1] = NL

\* \s* from position i: the position after the longest run of whitespace
RECURSIVE SkipSpace(_, _)
SkipSpace(s, i) ==
    IF i <= Len(s) /\ IsSpace(s[i]) THEN SkipSpace(s, i + 1) ELSE i

\* [^'"]* from position i: the position after the longest run of non-quotes
RECURSIVE SkipNonQuote(_, _)
SkipNonQuote(s, i) ==
    IF i <= Len(s) /\ ~IsQuote(s[i]) THEN SkipNonQuote(s, i + 1) ELSE i

\* The pattern ^__version__\s*=\s*['"]([^'"]*)['"] tried at position i.
\* Neither run can give characters back to what follows it (an = is no
\* whitespace, a quote is no non-quote), so the longest runs decide.
MatchAt(s, i) ==
    LET eq == SkipSpace(s, i + 1)
        open == SkipSpace(s, eq + 1)
        close == SkipNonQuote(s, open + 1)
        ok == /\ IsLineStart(s, i)
              /\ s[i] = NAME
              /\ eq <= Len(s) /\ s[eq] = "="
              /\ open <= Len(s) /\ IsQuote(s[open])
              /\ close <= Len(s)
    IN  IF ok THEN [found |-> TRUE, group |-> SubSeq(s, open + 1, close - 1)]
        ELSE [found |-> FALSE, group |-> <<>>]

\* re.search: the match at the leftmost position that has one
RECURSIVE SearchFrom(_, _)
SearchFrom(s, i) ==
    IF i > Len(s) THEN [found |-> FALSE, group |-> <<>>]
    ELSE IF MatchAt(s, i).found THEN MatchAt(s, i)
    ELSE SearchFrom(s, i + 1)

SearchLast(s) ==
    LET hits == {i \in 1..Len(s) : MatchAt(s, i).found}
    IN  IF hits = {} THEN [found |-> FALSE, group |-> <<>>]
        ELSE MatchAt(s, CHOOSE i \in hits : \A j \in hits : j <= i)

Search(s) == SearchFrom(s, 1)

\* read_version_number(filepath) on the file f
read_version_number(f) ==
    IF ~f.exists
    THEN [error |-> "version file does not exist", version |-> None]
    ELSE LET m == Search(f.content)
             parsed == ParseVersionInfo(m.group)
         IN  IF ~m.found
             THEN [error |-> "version number not found", version |-> None]
             ELSE IF ~parsed.valid
             THEN [error |-> "version number is not a valid semver string",
                   version |-> None]
             ELSE [error |-> "", version |-> parsed.version]

(***************************************************************************)
(* determine_new_version_number: the scan of the entries and the decision. *)
(***************************************************************************)
\* CategoryChange (three of its members)
FIXED == "fixed"
Categories == {FIXED, "added", "removed"}

\* The for loop over entries.values(), from entry i on, with its break.
RECURSIVE ScanFrom(_, _, _, _)
ScanFrom(es, i, bump_patch, bump_minor) ==
    IF i > Len(es) THEN [bump_patch |-> bump_patch, bump_minor |-> bump_minor]
    ELSE IF es[i] # FIXED
    THEN [bump_patch |-> bump_patch, bump_minor |-> TRUE]
    ELSE ScanFrom(es, i + 1, TRUE, bump_minor)

ScanFirstOnly(es) ==
    IF es = <<>> THEN [bump_patch |-> FALSE, bump_minor |-> FALSE]
    ELSE ScanFrom(<<es[1]>>, 1, FALSE, FALSE)

Scan(es) == ScanFrom(es, 1, FALSE, FALSE)

NextVersionBumpsMajor(current, flags) ==
    LET afterPatch == IF flags.bump_patch THEN BumpPatch(current) ELSE None
    IN  IF flags.bump_minor
        THEN VersionInfo(current.major + 1, 0, 0, <<>>, <<>>)
        ELSE afterPatch

NextVersionAlways(current, flags) ==
    IF flags.bump_minor THEN BumpMinor(current) ELSE BumpPatch(current)

\* next_version after the two ifs: None, the patch bump, or the minor bump
\* that overwrites it
NextVersion(current, flags) ==
    LET afterPatch == IF flags.bump_patch THEN BumpPatch(current) ELSE None
    IN  IF flags.bump_minor THEN BumpMinor(current) ELSE afterPatch

(***************************************************************************)
(* open(filepath, mode='w') and fd.write(stream).                          *)
(***************************************************************************)
OpenForAppend(content) == content

\* mode 'w' truncates the file
OpenForWrite(content) == <<>>

WriteAppend(content, text) == content \o text

\* the stream lands at offset 0 of what the file holds when it is flushed
WriteAt0(content, text) ==
    IF Len(content) > Len(text)
    THEN text \o SubSeq(content, Len(text) + 1, Len(content))
    ELSE text

(***************************************************************************)
(* The files and changelog directories the runs start from.                *)
(***************************************************************************)
SampleVersions ==
    { VersionInfo(1, 2, 3, <<>>, <<>>),
      VersionInfo(0, 9, 9, <<>>, <<>>),
      VersionInfo(1, 2, 3, <<"a", ".", "1">>, <<>>),
      VersionInfo(2, 0, 0, <<>>, <<"b", "-", "0", "7">>),
      VersionInfo(10, 19, 99, <<"a">>, <<"0", ".", "b">>) }

ValidTexts == { FormatVersion(v) : v \in SampleVersions }

InvalidTexts ==
    { <<>>,
      <<"1", ".", "2">>,
      <<"0", "1", ".", "2", ".", "3">>,
      <<"1", ".", "2", ".", "3", "-">>,
      <<"1", ".", "2", ".", "3", "-", "0", "1">>,
      <<"1", ".", "2", ".", "3", "+">>,
      <<"1", ".", "2", ".", "a">>,
      <<"1", ".", "2", ".", "3", SP>> }

Texts == ValidTexts \cup InvalidTexts

Assign(q, t) == <<NAME, SP, "=", SP, q>> \o t \o <<q, NL>>
Comment == <<"#", SP, "x", NL>>
Other == <<"x", SP, "=", SP, DQ, "1", ".", "0", ".", "0", DQ, NL>>
V123 == <<"1", ".", "2", ".", "3">>
V200 == <<"2", ".", "0", ".", "0">>

Contents ==
    \* one assignment, in either kind of quotes
    { Assign(q, t) : q \in {SQ, DQ}, t \in Texts }
    \* an assignment among other lines
    \cup { Comment \o Other \o Assign(DQ, t) \o Other : t \in Texts }
    \* two assignments
    \cup { Assign(SQ, t) \o Comment \o Assign(DQ, V200) : t \in Texts }
    \* no assignment: empty, other lines, indented, prefixed, unquoted
    \cup { <<>>, Comment \o Other, <<SP>> \o Assign(DQ, V123),
           <<"x">> \o Assign(DQ, V123),
           <<NAME, SP, "=", SP>> \o V123 \o <<NL>> }
    \* an indented assignment before a real one
    \cup { <<SP>> \o Assign(DQ, V123) \o Assign(SQ, V200) }
    \* no spaces and no final newline
    \cup { <<NAME, "=", SQ>> \o V200 \o <<SQ>> }
    \* quotes of two kinds; a quote left open; whitespace and text over lines
    \cup { <<NAME, SP, "=", SP, SQ>> \o V123 \o <<DQ, NL>>,
           <<NAME, SP, "=", SP, DQ>> \o V123 \o <<NL>> \o Assign(SQ, V200),
           <<NAME, SP, "=", SP, DQ>> \o V123 \o <<NL>>,
           <<NAME, NL, "=", NL, DQ>> \o V123 \o <<DQ, NL>>,
           <<NAME, SP, "=", SP, DQ>> \o V123 \o <<NL, DQ, NL>> }

Files ==
    { [tracked |-> FALSE, exists |-> FALSE, content |-> <<>>],
      [tracked |-> TRUE, exists |-> FALSE, content |-> <<>>] }
    \cup { [tracked |-> TRUE, exists |-> TRUE, content |-> c] : c \in Contents }

ConcurrentFiles ==
    { [tracked |-> TRUE, exists |-> TRUE, content |-> c] :
          c \in { Assign(DQ, V123),
                   Assign(SQ, <<"0", ".", "9", ".", "9">>),
                   Comment \o Assign(DQ, <<"1", ".", "9", "-", "a">>),
                   Comment \o Assign(SQ, V200) \o Assign(DQ, V123) } }

RECURSIVE SeqsUpTo(_, _)
SeqsUpTo(S, n) ==
    IF n = 0 THEN {<<>>}
    ELSE LET shorter == SeqsUpTo(S, n - 1)
         IN  shorter \cup { Append(s, x) : s \in shorter, x \in S }

Changelogs ==
    { [exists |-> FALSE, readable |-> FALSE, entries |-> <<>>],
      [exists |-> TRUE, readable |-> FALSE, entries |-> <<>>] }
    \cup { [exists |-> TRUE, readable |-> TRUE, entries |-> es] :
               es \in SeqsUpTo(Categories, MaxEntries) }

(***************************************************************************)
(* The state.                                                              *)
(***************************************************************************)
Procs == {1, 2}

VARIABLES
    file,             \* the version file: tracked by git, on disk, its text
    changelog,        \* releases/unreleased: on disk, readable, its entries
    clock,            \* the UTC clock
    runs,             \* invocations started
    pc,               \* where each invocation is
    dry_run,          \* --dry-run
    filepath,         \* find_version_file's result
    current_version,
    entries,          \* read_unreleased_changelog_entries' result
    new_version,
    stream,           \* the text write_version_number writes
    error,            \* the ClickException's message, "" when none
    stdout,           \* the lines echoed
    exit_code,        \* -1 while running
    log,              \* the steps the invocation has taken
    before,           \* the version file when the invocation started
    history           \* the finished invocations

vars == <<file, changelog, clock, runs, pc, dry_run, filepath, current_version,
          entries, new_version, stream, error, stdout, exit_code, log, before,
          history>>

InitLocals ==
    /\ clock = 0
    /\ runs = 0
    /\ pc = [p \in Procs |-> "idle"]
    /\ dry_run = [p \in Procs |-> FALSE]
    /\ filepath = [p \in Procs |-> ""]
    /\ current_version = [p \in Procs |-> None]
    /\ entries = [p \in Procs |-> <<>>]
    /\ new_version = [p \in Procs |-> None]
    /\ stream = [p \in Procs |-> <<>>]
    /\ error = [p \in Procs |-> ""]
    /\ stdout = [p \in Procs |-> <<>>]
    /\ exit_code = [p \in Procs |-> -1]
    /\ log = [p \in Procs |-> <<>>]
    /\ before = [p \in Procs |-> file]
    /\ history = <<>>

Init ==
    /\ file \in Files
    /\ changelog \in Changelogs
    /\ InitLocals

\* the concurrent runs start from a version file that is there
InitConcurrent ==
    /\ file \in ConcurrentFiles
    /\ changelog \in Changelogs
    /\ changelog.readable
    /\ InitLocals

Finished(p) == pc[p] \in {"idle", "done", "failed"}

Record(p, msg, code) ==
    [proc |-> p, dry_run |-> dry_run[p], error |-> msg, exit_code |-> code,
     current |-> current_version[p], new |-> new_version[p]]

ContinueSkippingDirpathCheck(label, dry) ==
    CASE label = "find_version_file" -> "read_version_number"
      [] label = "read_version_number" -> "read_changelog_entries"
      [] label = "check_dirpath" -> "read_changelog_entries"
      [] label = "read_changelog_entries" -> "decide"
      [] label = "decide" -> IF dry THEN "echo" ELSE "write_open"
      [] label = "write_open" -> "write_flush"
      [] label = "write_flush" -> "echo"

ContinueIgnoringDryRun(label, dry) ==
    CASE label = "find_version_file" -> "read_version_number"
      [] label = "read_version_number" -> "check_dirpath"
      [] label = "check_dirpath" -> "read_changelog_entries"
      [] label = "read_changelog_entries" -> "decide"
      [] label = "decide" -> "write_open"
      [] label = "write_open" -> "write_flush"
      [] label = "write_flush" -> "echo"

\* The step that follows a step that raised nothing: semverup calls
\* find_version_file, read_version_number, determine_new_version_number
\* (which checks the directory, reads the entries and decides) and, unless
\* --dry-run is set, write_version_number, before it echoes.
Continue(label, dry) ==
    CASE label = "find_version_file" -> "read_version_number"
      [] label = "read_version_number" -> "check_dirpath"
      [] label = "check_dirpath" -> "read_changelog_entries"
      [] label = "read_changelog_entries" -> "decide"
      [] label = "decide" -> IF dry THEN "echo" ELSE "write_open"
      [] label = "write_open" -> "write_flush"
      [] label = "write_flush" -> "echo"

RaiseAndExitZero(p, msg) ==
    /\ pc' = [pc EXCEPT ![p] = "failed"]
    /\ error' = [error EXCEPT ![p] = msg]
    /\ exit_code' = [exit_code EXCEPT ![p] = 0]
    /\ history' = Append(history, Record(p, msg, 0))

\* raise click.ClickException(msg): the message is shown and the exit is 1
Raise(p, msg) ==
    /\ pc' = [pc EXCEPT ![p] = "failed"]
    /\ error' = [error EXCEPT ![p] = msg]
    /\ exit_code' = [exit_code EXCEPT ![p] = 1]
    /\ history' = Append(history, Record(p, msg, 1))

Goto(p, label) ==
    /\ pc' = [pc EXCEPT ![p] = label]
    /\ UNCHANGED <<error, exit_code, history>>

Step(p, name) == log' = [log EXCEPT ![p] = Append(@, name)]

\* the command is invoked
Invoke(p) ==
    /\ Finished(p)
    /\ runs < MaxRuns
    /\ runs' = runs + 1
    /\ clock' = clock + 1
    /\ \E d \in BOOLEAN : dry_run' = [dry_run EXCEPT ![p] = d]
    /\ pc' = [pc EXCEPT ![p] = "find_version_file"]
    /\ filepath' = [filepath EXCEPT ![p] = ""]
    /\ current_version' = [current_version EXCEPT ![p] = None]
    /\ entries' = [entries EXCEPT ![p] = <<>>]
    /\ new_version' = [new_version EXCEPT ![p] = None]
    /\ stream' = [stream EXCEPT ![p] = <<>>]
    /\ error' = [error EXCEPT ![p] = ""]
    /\ stdout' = [stdout EXCEPT ![p] = <<>>]
    /\ exit_code' = [exit_code EXCEPT ![p] = -1]
    /\ log' = [log EXCEPT ![p] = <<>>]
    /\ before' = [before EXCEPT ![p] = file]
    /\ UNCHANGED <<file, changelog, history>>

find_version_file(p) ==
    /\ pc[p] = "find_version_file"
    /\ Step(p, "find_version_file")
    /\ IF file.tracked
       THEN /\ filepath' = [filepath EXCEPT ![p] = "_version.py"]
            /\ Goto(p, Continue("find_version_file", dry_run[p]))
       ELSE /\ Raise(p, "version file not found")
            /\ UNCHANGED filepath
    /\ UNCHANGED <<file, changelog, clock, runs, dry_run, current_version,
                   entries, new_version, stream, stdout, before>>

ReadVersionNumber(p) ==
    /\ pc[p] = "read_version_number"
    /\ Step(p, "read_version_number")
    /\ LET r == read_version_number(file)
       IN  IF r.error = ""
           THEN /\ current_version' = [current_version EXCEPT ![p] = r.version]
                /\ Goto(p, Continue("read_version_number", dry_run[p]))
           ELSE /\ Raise(p, r.error)
                /\ UNCHANGED current_version
    /\ UNCHANGED <<file, changelog, clock, runs, dry_run, filepath, entries,
                   new_version, stream, stdout, before>>

\* read_unreleased_changelog_entries: os.path.exists(dirpath)
CheckDirpath(p) ==
    /\ pc[p] = "check_dirpath"
    /\ Step(p, "check_dirpath")
    /\ IF changelog.exists
       THEN Goto(p, Continue("check_dirpath", dry_run[p]))
       ELSE Raise(p, "changelog entries directory does not exist.")
    /\ UNCHANGED <<file, changelog, clock, runs, dry_run, filepath,
                   current_version, entries, new_version, stream, stdout,
                   before>>

\* read_unreleased_changelog_entries: read_changelog_entries(dirpath)
ReadChangelogEntries(p) ==
    /\ pc[p] = "read_changelog_entries"
    /\ Step(p, "read_changelog_entries")
    /\ IF changelog.readable
       THEN /\ entries' = [entries EXCEPT ![p] = changelog.entries]
            /\ Goto(p, Continue("read_changelog_entries", dry_run[p]))
       ELSE /\ Raise(p, "changelog entry not read")
            /\ UNCHANGED entries
    /\ UNCHANGED <<file, changelog, clock, runs, dry_run, filepath,
                   current_version, new_version, stream, stdout, before>>

\* determine_new_version_number, after the entries are read
Decide(p) ==
    /\ pc[p] = "decide"
    /\ Step(p, "decide")
    /\ LET next_version == NextVersion(current_version[p], Scan(entries[p]))
       IN  IF next_version = None
           THEN /\ Raise(p, "no changes found; version number not updated")
                /\ UNCHANGED new_version
           ELSE /\ new_version' = [new_version EXCEPT ![p] = next_version]
                /\ Goto(p, Continue("decide", dry_run[p]))
    /\ UNCHANGED <<file, changelog, clock, runs, dry_run, filepath,
                   current_version, entries, stream, stdout, before>>

\* write_version_number: the stream is formatted and the file opened
WriteOpen(p) ==
    /\ pc[p] = "write_open"
    /\ Step(p, "write_open")
    /\ stream' = [stream EXCEPT ![p] =
           VERSION_FILE_TEMPLATE(Timestamp(clock), FormatVersion(new_version[p]))]
    /\ file' = [file EXCEPT !.exists = TRUE, !.content = OpenForWrite(@)]
    /\ Goto(p, Continue("write_open", dry_run[p]))
    /\ UNCHANGED <<changelog, clock, runs, dry_run, filepath, current_version,
                   entries, new_version, stdout, before>>

\* write_version_number: the stream reaches the file as the with block ends
WriteFlush(p) ==
    /\ pc[p] = "write_flush"
    /\ Step(p, "write_flush")
    /\ file' = [file EXCEPT !.content = WriteAt0(@, stream[p])]
    /\ Goto(p, Continue("write_flush", dry_run[p]))
    /\ UNCHANGED <<changelog, clock, runs, dry_run, filepath, current_version,
                   entries, new_version, stream, stdout, before>>

\* click.echo(new_version), and the command returns
Echo(p) ==
    /\ pc[p] = "echo"
    /\ Step(p, "echo")
    /\ stdout' = [stdout EXCEPT ![p] = Append(@, FormatVersion(new_version[p]))]
    /\ pc' = [pc EXCEPT ![p] = "done"]
    /\ exit_code' = [exit_code EXCEPT ![p] = 0]
    /\ history' = Append(history, Record(p, "", 0))
    /\ UNCHANGED <<file, changelog, clock, runs, dry_run, filepath,
                   current_version, entries, new_version, stream, error, before>>

semverup(p) ==
    \/ Invoke(p)
    \/ find_version_file(p)
    \/ ReadVersionNumber(p)
    \/ CheckDirpath(p)
    \/ ReadChangelogEntries(p)
    \/ Decide(p)
    \/ WriteOpen(p)
    \/ WriteFlush(p)
    \/ Echo(p)

\* one invocation at a time
Next == semverup(1)

Spec == Init /\ [][Next]_vars

\* two shells, each invoking the command at any time
NextConcurrent == \E p \in Procs : semverup(p)

SpecConcurrent == InitConcurrent /\ [][NextConcurrent]_vars

(***************************************************************************)
(* Properties.                                                             *)
(***************************************************************************)
Did(p, name) == \E i \in DOMAIN log[p] : log[p][i] = name

Pos(p, name) == CHOOSE i \in DOMAIN log[p] : log[p][i] = name

Count(p, name) == Cardinality({i \in DOMAIN log[p] : log[p][i] = name})

NoChanges == "no changes found; version number not updated"

AnyNotFixed(es) == \E i \in DOMAIN es : es[i] # FIXED

PatchAbove(v) ==
    [major |-> v.major, minor |-> v.minor, patch |-> v.patch + 1,
     prerelease |-> <<>>, build |-> <<>>]

MinorAbove(v) ==
    [major |-> v.major, minor |-> v.minor + 1, patch |-> 0,
     prerelease |-> <<>>, build |-> <<>>]

\* C1: once determine_new_version_number has decided over a non-empty
\* mapping, the new version is the minor bump of the current version if at
\* least one entry, at any place of the iteration order, is not FIXED, and the
\* patch bump otherwise.
C1_BumpDependsOnlyOnAnyNotFixed ==
    \A p \in Procs :
        (Did(p, "decide") /\ entries[p] # <<>>) =>
            /\ pc[p] # "failed"
            /\ new_version[p] =
                   IF AnyNotFixed(entries[p])
                   THEN MinorAbove(current_version[p])
                   ELSE PatchAbove(current_version[p])

\* 1.2.3 with FIXED then ADDED has been decided as 1.3.0
C1_Witness ==
    /\ Did(1, "decide")
    /\ entries[1] = <<FIXED, "added">>
    /\ current_version[1] = VersionInfo(1, 2, 3, <<>>, <<>>)
    /\ new_version[1] = VersionInfo(1, 3, 0, <<>>, <<>>)

\* C2: a --dry-run invocation never changes the version file, and one that
\* ends without an error has echoed the new version, once.
C2_DryRunLeavesFile ==
    (dry_run[1] /\ pc[1] # "idle") =>
        /\ file = before[1]
        /\ pc[1] = "done" =>
               /\ stdout[1] = <<FormatVersion(
                      IF AnyNotFixed(changelog.entries)
                      THEN MinorAbove(read_version_number(before[1]).version)
                      ELSE PatchAbove(read_version_number(before[1]).version))>>
               /\ exit_code[1] = 0

\* a dry run over a valid file and a non-empty changelog has finished
C2_Witness ==
    /\ dry_run[1] /\ pc[1] = "done"
    /\ changelog.entries # <<>>
    /\ file.content = Assign(SQ, V123)
    /\ stdout[1] = <<<<"1", ".", "3", ".", "0">>>>

FailureConditions(f, c) ==
    \/ ~f.tracked
    \/ ~f.exists
    \/ read_version_number(f).error # ""
    \/ ~c.exists
    \/ ~c.readable
    \/ c.entries = <<>>

FirstFailure(f, c) ==
    IF ~f.tracked THEN "version file not found"
    ELSE IF ~f.exists THEN "version file does not exist"
    ELSE IF read_version_number(f).error # "" THEN read_version_number(f).error
    ELSE IF ~c.exists THEN "changelog entries directory does not exist."
    ELSE IF ~c.readable THEN "changelog entry not read"
    ELSE NoChanges

\* C3: an invocation fails exactly when one of the failure conditions holds
\* of the files it started from; a failed invocation has shown a message,
\* exits with 1, has echoed nothing and has left the version file as it was.
C3_FailuresLeaveNoPartialState ==
    /\ pc[1] = "failed" =>
           /\ error[1] # ""
           /\ exit_code[1] = 1
           /\ stdout[1] = <<>>
           /\ file = before[1]
           /\ FailureConditions(before[1], changelog)
           /\ error[1] = FirstFailure(before[1], changelog)
    /\ pc[1] = "done" => ~FailureConditions(before[1], changelog)
    /\ (pc[1] \notin {"idle", "done", "failed"}) =>
           /\ error[1] = "" /\ exit_code[1] = -1 /\ stdout[1] = <<>>

\* a run failed on an invalid version after the file was found
C3_Witness ==
    /\ pc[1] = "failed"
    /\ error[1] = "version number is not a valid semver string"
    /\ before[1].content = Assign(DQ, <<"1", ".", "2">>)

\* C4: the decision over an empty mapping raises "no changes found" and
\* yields no version, whatever the current version; the decision over a
\* non-empty mapping never raises it.
C4_NoChangesIffEmpty ==
    \A p \in Procs :
        Did(p, "decide") =>
            /\ (error[p] = NoChanges) <=> (entries[p] = <<>>)
            /\ entries[p] = <<>> =>
                   /\ new_version[p] = None
                   /\ pc[p] = "failed"
                   /\ stdout[p] = <<>>

\* the decision over no entries was reached with 10.19.99-a+0.b
C4_Witness ==
    /\ Did(1, "decide")
    /\ entries[1] = <<>>
    /\ current_version[1] = VersionInfo(10, 19, 99, <<"a">>, <<"0", ".", "b">>)
    /\ error[1] = NoChanges

\* C5: a new version is above the current one in semver precedence, keeps
\* its major, is (major, minor, patch + 1) or (major, minor + 1, 0) and has
\* no prerelease and no build; every invocation of a sequence reads the same
\* major, and the file a successful invocation leaves holds that major.
C5_NewVersionAboveSameMajor ==
    /\ \A p \in Procs :
           new_version[p] # None =>
               /\ Compare(new_version[p], current_version[p]) = 1
               /\ Compare(current_version[p], new_version[p]) = -1
               /\ new_version[p].major = current_version[p].major
               /\ new_version[p].prerelease = <<>>
               /\ new_version[p].build = <<>>
               /\ \/ /\ new_version[p].minor = current_version[p].minor
                     /\ new_version[p].patch = current_version[p].patch + 1
                  \/ /\ new_version[p].minor = current_version[p].minor + 1
                     /\ new_version[p].patch = 0
    /\ \A i, j \in DOMAIN history :
           (history[i].current # None /\ history[j].current # None) =>
               history[i].current.major = history[j].current.major
    /\ pc[1] = "done" =>
           read_version_number(file).version.major
               = read_version_number(before[1]).version.major

\* two invocations have written, from a version with a prerelease and a build
C5_Witness ==
    /\ Len(history) = 2
    /\ history[1].current = VersionInfo(10, 19, 99, <<"a">>, <<"0", ".", "b">>)
    /\ history[1].new = VersionInfo(10, 19, 100, <<>>, <<>>)
    /\ history[2].new = VersionInfo(10, 19, 101, <<>>, <<>>)
    /\ read_version_number(file).version = history[2].new

TwiceAbove(v, es) ==
    IF AnyNotFixed(es)
    THEN [major |-> v.major, minor |-> v.minor + 2, patch |-> 0,
          prerelease |-> <<>>, build |-> <<>>]
    ELSE [major |-> v.major, minor |-> v.minor, patch |-> v.patch + 2,
          prerelease |-> <<>>, build |-> <<>>]

Wrote(h) == h.error = "" /\ ~h.dry_run

\* C6: the file a successful writing invocation leaves is read back as
\* exactly the version written; of two writing invocations in a row, the
\* second reads the version the first wrote and bumps it again, so the file
\* ends two bumps above the version the first one read.
C6_SecondRunBumpsAgain ==
    /\ (pc[1] = "done" /\ ~dry_run[1]) =>
           read_version_number(file) = [error |-> "", version |-> new_version[1]]
    /\ \A n \in DOMAIN history :
           (n > 1 /\ Wrote(history[n - 1]) /\ Wrote(history[n])) =>
               /\ history[n].current = history[n - 1].new
               /\ history[n].new
                      = TwiceAbove(history[n - 1].current, changelog.entries)
               /\ (n = Len(history) /\ Finished(1)) =>
                      read_version_number(file).version = history[n].new

\* 1.2.3 with one FIXED entry ends at 1.2.5 after two writing invocations
C6_Witness ==
    /\ Len(history) = 2 /\ Wrote(history[1]) /\ Wrote(history[2])
    /\ changelog.entries = <<FIXED>>
    /\ history[1].current = VersionInfo(1, 2, 3, <<>>, <<>>)
    /\ read_version_number(file).version = VersionInfo(1, 2, 5, <<>>, <<>>)

Generated(t, v) ==
    <<"# File auto-generated by semverup on ", "T">> \o FormatInt(t)
        \o <<"\n", "__version__", " ", "=", " ", "\"">> \o FormatVersion(v)
        \o <<"\"", "\n">>

Lines(s) == Cardinality({i \in DOMAIN s : s[i] = NL})

\* C7: after a successful invocation that is not a dry run, the version file
\* is exactly the generated comment line and assignment line, whatever it
\* held before.
C7_FileIsTheGeneratedDeclaration ==
    (pc[1] = "done" /\ ~dry_run[1]) =>
        /\ file.content = Generated(clock, new_version[1])
        /\ Lines(file.content) = 2
        /\ file.tracked /\ file.exists

\* a file of four lines, longer than the generated text, was replaced
C7_Witness ==
    /\ pc[1] = "done" /\ ~dry_run[1]
    /\ before[1].content = Comment \o Other \o Assign(DQ, V123) \o Other
    /\ Len(before[1].content) > Len(file.content)
    /\ file.content # before[1].content

QuotesAfter(s, i) == {x \in (i + 1)..Len(s) : s[x] \in {"'", "\""}}

Least(S) == CHOOSE x \in S : \A y \in S : x <= y

\* An assignment starts at position i of s: the name opens a line, and up
\* to the first quote after it there is one = sign among whitespace only,
\* and a second quote follows.
AssignsAt(s, i) ==
    /\ s[i] = "__version__"
    /\ (i = 1 \/ s[i - 1] = "\n")
    /\ Cardinality(QuotesAfter(s, i)) >= 2
    /\ LET open == Least(QuotesAfter(s, i))
       IN  /\ \A x \in (i + 1)..(open - 1) : s[x] \in {" ", "\n", "="}
           /\ Cardinality({x \in (i + 1)..(open - 1) : s[x] = "="}) = 1

Assigned(s, i) ==
    LET open == Least(QuotesAfter(s, i))
        close == Least(QuotesAfter(s, open))
    IN  SubSeq(s, open + 1, close - 1)

Assignments(s) == {i \in DOMAIN s : AssignsAt(s, i)}

WithoutFinalNewline(t) ==
    IF t # <<>> /\ t[Len(t)] = "\n" THEN SubSeq(t, 1, Len(t) - 1) ELSE t

Before(p, a, b) == Did(p, a) /\ Did(p, b) /\ Pos(p, a) < Pos(p, b)

\* C9: in every invocation the version file is located and read before the
\* changelog directory is examined, the directory is checked before the
\* decision, the file is written at most once, only without --dry-run and
\* only after the read and the decision succeeded, and the new version is
\* echoed exactly once, as the last step, by every invocation that does not
\* fail and by no other.
C9_OrderOfSteps ==
    /\ Did(1, "check_dirpath") =>
           /\ Before(1, "find_version_file", "read_version_number")
           /\ Before(1, "read_version_number", "check_dirpath")
           /\ current_version[1] # None
    /\ Did(1, "decide") =>
           /\ Before(1, "check_dirpath", "read_changelog_entries")
           /\ Before(1, "read_changelog_entries", "decide")
           /\ changelog.exists
    /\ Count(1, "write_open") <= 1 /\ Count(1, "write_flush") <= 1
    /\ Did(1, "write_flush") => Before(1, "write_open", "write_flush")
    /\ Did(1, "write_open") =>
           /\ ~dry_run[1]
           /\ Before(1, "read_version_number", "write_open")
           /\ Before(1, "decide", "write_open")
           /\ new_version[1] # None
    /\ (file # before[1] /\ pc[1] # "idle") => Did(1, "write_open")
    /\ Len(stdout[1]) = Count(1, "echo")
    /\ Did(1, "echo") <=> pc[1] = "done"
    /\ pc[1] = "done" =>
           /\ Count(1, "echo") = 1
           /\ log[1][Len(log[1])] = "echo"
           /\ dry_run[1] <=> ~Did(1, "write_open")
           /\ ~dry_run[1] => Before(1, "write_flush", "echo")

\* a writing invocation has gone through all eight steps
C9_Witness ==
    /\ pc[1] = "done"
    /\ log[1] = <<"find_version_file", "read_version_number", "check_dirpath",
                  "read_changelog_entries", "decide", "write_open",
                  "write_flush", "echo">>

BothWrote ==
    \A p \in Procs : pc[p] = "done" /\ ~dry_run[p] /\ exit_code[p] = 0

\* C10: nothing keeps two invocations apart.  When both have read the same
\* current version (each read before the other wrote) and both have written,
\* both computed the same new version and the file holds that one bump only;
\* when these two are the only invocations and the second read what the first
\* wrote, the file ends two bumps above what the first read.
C10_LostUpdate ==
    /\ (BothWrote /\ current_version[1] = current_version[2]) =>
           /\ new_version[1] = new_version[2]
           /\ new_version[1] = IF AnyNotFixed(changelog.entries)
                               THEN MinorAbove(current_version[1])
                               ELSE PatchAbove(current_version[1])
           /\ \E t \in 0..clock : file.content = Generated(t, new_version[1])
    /\ \A p, q \in Procs :
           (BothWrote /\ runs = 2 /\ current_version[q] = new_version[p]) =>
               /\ new_version[q]
                      = TwiceAbove(current_version[p], changelog.entries)
               /\ \E t \in 0..clock : file.content = Generated(t, new_version[q])

\* both invocations read 1.2.3 while neither had written, and both wrote 1.2.4
C10_Witness ==
    /\ BothWrote
    /\ Len(history) = 2
    /\ current_version[1] = VersionInfo(1, 2, 3, <<>>, <<>>)
    /\ current_version[2] = VersionInfo(1, 2, 3, <<>>, <<>>)
    /\ changelog.entries = <<FIXED>>
    /\ read_version_number(file).version = VersionInfo(1, 2, 4, <<>>, <<>>)

====
